---- MODULE Spec2Model ----
(***************************************************************************)
(* A model of the snowflake cellular automaton of src/engine.py:           *)
(* CrystalEnvironment, CrystalLattice and SnowflakeCell.                   *)
(*                                                                         *)
(* Masses and physical constants are Python floats in the source and are   *)
(* IEEE 754 doubles here: every sum, product and quotient is rounded as    *)
(* the source rounds it.                                                   *)
(* The lattice is a flat list of size*size cells, cell (x, y) at index     *)
(* y*size + x; the three loops of CrystalLattice.step() are three actions  *)
(* that each visit the cells in list order.                                *)
(***************************************************************************)
EXTENDS Integers, Sequences, FiniteSets

VARIABLES
    size,       \* CrystalLattice.size
    env,        \* CrystalLattice.environment: the current parameter values
    curves,     \* CrystalEnvironment.curves: None (present = FALSE) or a curve source
    iteration,  \* CrystalLattice.iteration
    margin,     \* CrystalLattice.margin
    max_steps,  \* CrystalLattice.max_steps
    cells,      \* CrystalLattice.cells: index -> cell record
    pc,         \* position of the caller: in grow(), inside step(), or in the unit harness
    nsteps,     \* number of step() calls begun by grow()
    pre,        \* snapshot taken when step() begins: the cells and the radius before the step
    reads,      \* the neighbour reads made by Phase 2 of the current step()
    envcalls,   \* the iteration indices passed to CrystalEnvironment.step so far
    ut          \* the synthetic-cell harness of attachment_step: its inputs and result

vars == <<size, env, curves, iteration, margin, max_steps, cells, pc, nsteps, pre, reads,
          envcalls, ut>>

(***************************************************************************)
(* Bounds of the model.                                                    *)
(***************************************************************************)
MaxSize == 6
MaxSteps == 6

(***************************************************************************)
(* Python floats: IEEE 754 binary64 with round-to-nearest, ties to even.   *)
(* A float is a record [s, e, m]: sign s (0 or 1), exponent e and the      *)
(* 53-bit significand m as four limbs of 14 bits, least significant        *)
(* first; its value is (-1)^s * (m[1] + m[2]*B + m[3]*B^2 + m[4]*B^3) *    *)
(* 2^e.  A normal number has 2^52 <= significand < 2^53; a subnormal       *)
(* number and zero have e = EMin and a smaller significand.  Every         *)
(* operation computes the exact result in limbs and rounds it once, as     *)
(* the hardware does.  Infinities and NaN are not modelled: no mass or     *)
(* parameter of a run comes near 2^1024.                                   *)
(***************************************************************************)
B == 16384
EMin == 0 - 1074

P2 ==
    <<1, 2, 4, 8, 16, 32, 64, 128, 256, 512, 1024, 2048, 4096, 8192, 16384, 32768, 65536,
      131072, 262144, 524288, 1048576, 2097152, 4194304, 8388608, 16777216, 33554432,
      67108864, 134217728, 268435456, 536870912, 1073741824>>

Pow2(k) == P2[k + 1]

Max(a, b) == IF a >= b THEN a ELSE b
Min(a, b) == IF a <= b THEN a ELSE b

\* Limb j of a limb list, 0 beyond its ends.
Limb(X, j) == IF j >= 1 /\ j <= Len(X) THEN X[j] ELSE 0

\* Eight limbs holding any integers brought to the range 0 .. B-1 by carrying
\* upward; the ninth entry is the carry out of the top limb (-1: negative).
Carry(X) ==
    LET t1 == X[1]
        t2 == X[2] + t1 \div B
        t3 == X[3] + t2 \div B
        t4 == X[4] + t3 \div B
        t5 == X[5] + t4 \div B
        t6 == X[6] + t5 \div B
        t7 == X[7] + t6 \div B
        t8 == X[8] + t7 \div B
    IN  <<t1 % B, t2 % B, t3 % B, t4 % B, t5 % B, t6 % B, t7 % B, t8 % B, t8 \div B>>

\* X * 2^k and floor(X / 2^k) on limb lists, as eight limbs.
ShiftedLimb(X, hi, lo, j) == (Limb(X, j) % hi) * lo + Limb(X, j - 1) \div hi

ShiftLeft(X, k) ==
    LET q == k \div 14
        hi == Pow2(14 - (k % 14))
        lo == Pow2(k % 14)
    IN  <<ShiftedLimb(X, hi, lo, 1 - q), ShiftedLimb(X, hi, lo, 2 - q),
          ShiftedLimb(X, hi, lo, 3 - q), ShiftedLimb(X, hi, lo, 4 - q),
          ShiftedLimb(X, hi, lo, 5 - q), ShiftedLimb(X, hi, lo, 6 - q),
          ShiftedLimb(X, hi, lo, 7 - q), ShiftedLimb(X, hi, lo, 8 - q)>>

\* The four low limbs of floor(X / 2^k).
ShiftRight(X, k) ==
    LET q == k \div 14
        hi == Pow2(k % 14)
        lo == Pow2(14 - (k % 14))
    IN  <<ShiftedLimb(X, hi, lo, 2 + q), ShiftedLimb(X, hi, lo, 3 + q),
          ShiftedLimb(X, hi, lo, 4 + q), ShiftedLimb(X, hi, lo, 5 + q)>>

\* Q + 1 on four limbs, the carry out of the third limb kept in the fourth.
Increment(Q) ==
    IF Q[1] + 1 < B THEN <<Q[1] + 1, Q[2], Q[3], Q[4]>>
    ELSE IF Q[2] + 1 < B THEN <<0, Q[2] + 1, Q[3], Q[4]>>
    ELSE IF Q[3] + 1 < B THEN <<0, 0, Q[3] + 1, Q[4]>>
    ELSE <<0, 0, 0, Q[4] + 1>>

IsZeroLimbs(X) == \A j \in 1 .. 8 : Limb(X, j) = 0

\* The number of bits of a limb.
LimbBits(v) ==
    IF v >= 128
    THEN IF v >= 2048 THEN (IF v >= 8192 THEN 14 ELSE IF v >= 4096 THEN 13 ELSE 12)
         ELSE IF v >= 512 THEN (IF v >= 1024 THEN 11 ELSE 10)
         ELSE IF v >= 256 THEN 9 ELSE 8
    ELSE IF v >= 8 THEN (IF v >= 32 THEN (IF v >= 64 THEN 7 ELSE 6) ELSE IF v >= 16 THEN 5 ELSE 4)
    ELSE IF v >= 2 THEN (IF v >= 4 THEN 3 ELSE 2)
    ELSE v

TopLimb(X) ==
    IF X[8] # 0 THEN 8 ELSE IF X[7] # 0 THEN 7 ELSE IF X[6] # 0 THEN 6
    ELSE IF X[5] # 0 THEN 5 ELSE IF X[4] # 0 THEN 4 ELSE IF X[3] # 0 THEN 3
    ELSE IF X[2] # 0 THEN 2 ELSE IF X[1] # 0 THEN 1 ELSE 0

\* The number of bits of the integer held by eight limbs.
BitLen(X) ==
    LET t == TopLimb(X) IN IF t = 0 THEN 0 ELSE 14 * (t - 1) + LimbBits(X[t])

MkFloat(s, e, X) == [s |-> s, e |-> e, m |-> <<X[1], X[2], X[3], X[4]>>]

\* Bit g of the integer held by limbs X, and whether any bit below it is set.
GuardBit(X, g) == (Limb(X, g \div 14 + 1) \div Pow2(g % 14)) % 2 = 1

BelowGuard(X, g) ==
    \/ Limb(X, g \div 14 + 1) % Pow2(g % 14) # 0
    \/ \E j \in 1 .. Min(g \div 14, 8) : Limb(X, j) # 0

\* A significand that rounding up has brought to 2^53 is 2^52 with the next exponent.
Renormalise(s, e, R) ==
    IF R[4] >= Pow2(11) THEN MkFloat(s, e + 1, ShiftRight(R, 1))
    ELSE [s |-> s, e |-> e, m |-> R]

\* The cut significand Q goes up by one when the dropped part is above one half
\* (guard and rest), or is one half (guard alone) and Q is odd.
Nearest(s, e, Q, guard, rest) ==
    Renormalise(s, e, IF guard /\ (rest \/ Q[1] % 2 = 1) THEN Increment(Q) ELSE Q)

\* X * 2^e with the sh low bits of X dropped (sh > 0), or with X moved up to
\* 53 bits (sh <= 0).
RoundShifted(s, X, e, sticky, sh) ==
    IF sh <= 0 THEN MkFloat(s, e + sh, ShiftLeft(X, 0 - sh))
    ELSE Nearest(s, e + sh, ShiftRight(X, sh), GuardBit(X, sh - 1),
                 sticky \/ BelowGuard(X, sh - 1))

RoundBits(s, X, e, sticky, n) ==
    IF n = 0 THEN MkFloat(s, EMin, X)
    ELSE RoundShifted(s, X, e, sticky, Max(n - 53, EMin - e))

\* The float nearest to (-1)^s * (X + f) * 2^e, where X is an integer in eight
\* limbs and f a fraction in [0, 1) that is non-zero exactly when sticky holds: the
\* exact value is cut to 53 bits (fewer below 2^-1022), a tie going to the even
\* significand.
Round(s, X, e, sticky) == RoundBits(s, X, e, sticky, BitLen(X))

Zero == [s |-> 0, e |-> EMin, m |-> <<0, 0, 0, 0>>]

IsZero(a) == a.m = <<0, 0, 0, 0>>

\* float(k) for an integer k, |k| < 2^31.
FromInt(k) ==
    LET a == IF k < 0 THEN 0 - k ELSE k
    IN  Round(IF k < 0 THEN 1 ELSE 0, <<a % B, (a \div B) % B, a \div (B * B), 0, 0, 0, 0, 0>>,
              0, FALSE)

One == FromInt(1)

FNeg(a) == [a EXCEPT !.s = 1 - @]

\* The float nearest to sH * H + sL * D' where D is the carried difference or sum
\* of the aligned significands: a negative difference takes the other sign, a
\* difference of zero is 0.0.
RoundSum(sH, sL, D, e, sticky) ==
    IF D[9] >= 0 /\ IsZeroLimbs(D) THEN Zero
    ELSE Round(IF D[9] < 0 THEN sL ELSE sH,
               IF D[9] < 0
               THEN Carry(<<0 - D[1], 0 - D[2], 0 - D[3], 0 - D[4], 0 - D[5], 0 - D[6],
                            0 - D[7], 0 - D[8]>>)
               ELSE D,
               e, sticky)

\* (-1)^sH * H * 2^e + (-1)^sL * L * 2^e, H of eight limbs and L of four; sg is 1
\* for equal signs and -1 otherwise.
AddAligned(sH, H, sL, L, e, sticky, sg) ==
    RoundSum(sH, sL,
             Carry(<<H[1] + sg * L[1], H[2] + sg * L[2], H[3] + sg * L[3],
                     H[4] + sg * L[4], H[5], H[6], H[7], H[8]>>),
             e, sticky)

\* hi + lo for non-zero floats with hi.e >= lo.e.  When the exponents are more
\* than 56 apart, lo only decides the direction of the rounding: hi's
\* significand gets three more bits and lo counts as a fraction of the last one.
AddOrdered(hi, lo, far, same) ==
    AddAligned(hi.s, ShiftLeft(hi.m, IF far THEN 3 ELSE hi.e - lo.e),
               lo.s, IF ~far THEN lo.m ELSE IF same THEN <<0, 0, 0, 0>> ELSE <<1, 0, 0, 0>>,
               IF far THEN hi.e - 3 ELSE lo.e, far, IF same THEN 1 ELSE 0 - 1)

\* a + b
FAdd(a, b) ==
    IF IsZero(a) THEN (IF IsZero(b) /\ a.s # b.s THEN Zero ELSE b)
    ELSE IF IsZero(b) THEN a
    ELSE AddOrdered(IF a.e >= b.e THEN a ELSE b, IF a.e >= b.e THEN b ELSE a,
                    a.e - b.e > 56 \/ b.e - a.e > 56, a.s = b.s)

\* a - b
FSub(a, b) == FAdd(a, FNeg(b))

\* a * b
FMul(a, b) ==
    LET x == a.m
        y == b.m
    IN  Round((a.s + b.s) % 2,
              Carry(<<x[1] * y[1],
                      x[1] * y[2] + x[2] * y[1],
                      x[1] * y[3] + x[2] * y[2] + x[3] * y[1],
                      x[1] * y[4] + x[2] * y[3] + x[3] * y[2] + x[4] * y[1],
                      x[2] * y[4] + x[3] * y[3] + x[4] * y[2],
                      x[3] * y[4] + x[4] * y[3],
                      x[4] * y[4],
                      0>>),
              a.e + b.e, FALSE)

\* One step of the long division by k: S is <<remainder, quotient limbs so far>>
\* and x the next limb of the dividend, going down.
DivStep(S, x, k) ==
    LET t == S[1] * B + x IN <<t % k, <<t \div k>> \o S[2]>>

LongDivision(X, k) ==
    DivStep(DivStep(DivStep(DivStep(DivStep(DivStep(<<0, <<>>>>, X[6], k), X[5], k), X[4], k),
                            X[3], k), X[2], k), X[1], k)

RoundQuotient(s, e, S) == Round(s, S[2] \o <<0, 0>>, e, S[1] # 0)

\* a / k for an integer k, 0 < k < 2^17 (the integer converts to a float exactly).
FDivInt(a, k) == RoundQuotient(a.s, a.e - 20, LongDivision(ShiftLeft(a.m, 20), k))

\* The float a literal denotes: the one nearest to n / d (d > 0), e.g. 0.085 is
\* Float(85, 1000).
Float(n, d) == FDivInt(FromInt(n), d)

\* Comparison of magnitudes, then of floats (-0.0 equals 0.0).
MagLt(a, b) ==
    \/ a.e < b.e
    \/ /\ a.e = b.e
       /\ \E j \in 1 .. 4 : a.m[j] < b.m[j] /\ \A i \in (j + 1) .. 4 : a.m[i] = b.m[i]

FEq(a, b) == (IsZero(a) /\ IsZero(b)) \/ a = b

FLt(a, b) ==
    IF IsZero(a) /\ IsZero(b) THEN FALSE
    ELSE IF a.s # b.s THEN a.s = 1
    ELSE IF a.s = 0 THEN MagLt(a, b) ELSE MagLt(b, a)

FLe(a, b) == FLt(a, b) \/ FEq(a, b)
FGt(a, b) == FLt(b, a)
FGe(a, b) == FLe(b, a)
FMin(a, b) == IF FLt(b, a) THEN b ELSE a

\* The integer nearest to q + f, a tie going to the even one: guard says f >= 1/2,
\* rest that f is not 0 and not 1/2.
TiesToEven(q, guard, rest) == IF guard /\ (rest \/ q % 2 = 1) THEN q + 1 ELSE q

\* int(round(a)) of Python 3 for |a| < 2^30: to the nearest integer, a tie to the
\* even one.
IntOf(Q) == Q[1] + Q[2] * B + Q[3] * B * B

RoundToInt(m, sh) ==
    TiesToEven(IntOf(ShiftRight(m, sh)), GuardBit(m, sh - 1), BelowGuard(m, sh - 1))

RoundHalfEven(a) == (1 - 2 * a.s) * RoundToInt(a.m, 0 - a.e)

(***************************************************************************)
(* CrystalEnvironment.                                                     *)
(***************************************************************************)
CurveKeys == {"beta", "theta", "alpha", "kappa", "mu", "upsilon", "sigma"}

\* _init_defaults: the constructed defaults, before update(**kw).
EnvDefaults ==
    [beta |-> Float(13, 10), theta |-> Float(1, 40), alpha |-> Float(2, 25), kappa |-> Float(3, 1000),
     mu |-> Float(7, 100), upsilon |-> Float(1, 20000), sigma |-> Float(1, 100000),
     gamma |-> Float(1, 2)]

\* CrystalEnvironment(**kw): the defaults overridden by the caller's map.  The
\* environments explored, by name; their parameters are small dyadic values.
EnvNames == {"fast", "slow", "static", "noisy"}

EnvOf(name) ==
    CASE name = "fast" ->
           [EnvDefaults EXCEPT !.beta = Zero, !.kappa = Float(1, 2), !.mu = Float(1, 2),
                               !.upsilon = Float(1, 2), !.sigma = Zero]
      [] name = "slow" ->
           [EnvDefaults EXCEPT !.beta = Float(5, 8), !.kappa = Float(1, 2), !.mu = Zero,
                               !.upsilon = Zero, !.sigma = Zero, !.gamma = One]
      [] name = "static" ->
           [EnvDefaults EXCEPT !.beta = Float(1, 2), !.kappa = Float(1, 2), !.mu = One,
                               !.upsilon = One, !.sigma = Zero, !.gamma = One]
      [] name = "noisy" ->
           [EnvDefaults EXCEPT !.beta = Zero, !.kappa = Float(1, 2), !.mu = Float(1, 2),
                               !.upsilon = Float(1, 2), !.sigma = Float(1, 2)]

\* The curve source handed to the environment by build_env: for each curve-driven
\* parameter a table indexed by iteration, valid for indices 0 .. steps-1.  The
\* table of beta alternates, the other parameters hold their value.
CurveValue(base, key, x) ==
    IF key = "beta" /\ x % 2 = 1 THEN FAdd(base.beta, Float(1, 8)) ELSE base[key]

\* An index the curve source cannot serve (the lookup curves[key][x] fails).
CurveIndexError(steps, x) == x < 0 \/ x >= steps

\* build_env(name, steps, min_gamma=0.45, max_gamma=0.85): the default bounds of
\* gamma, and the outcomes of random.random() (a float in [0, 1)) explored.
MinGamma == Float(45, 100)
MaxGamma == Float(85, 100)
RandomDraws == {Zero, Float(1, 2)}

\* build_env: the initial environment is the curve's value at index 0, plus
\* gamma = u * (max_gamma - min_gamma) + min_gamma for the draw u.
BuildEnv(base, u) ==
    [k \in DOMAIN base |->
        IF k \in CurveKeys THEN CurveValue(base, k, 0)
        ELSE FAdd(FMul(u, FSub(MaxGamma, MinGamma)), MinGamma)]

\* Mutant of EnvStep: the key beta is left out of the rewrite.
EnvStep_SkipsBeta(e, cv, x) ==
    IF ~cv.present THEN e
    ELSE [k \in DOMAIN e |->
            IF k \in CurveKeys \ {"beta"} THEN CurveValue(cv.base, k, x) ELSE e[k]]

\* CrystalEnvironment.step(x): no curve source, no change; else every
\* curve-driven parameter is rewritten from the curve at index x.
EnvStep(e, cv, x) ==
    IF ~cv.present THEN e
    ELSE [k \in DOMAIN e |-> IF k \in CurveKeys THEN CurveValue(cv.base, k, x) ELSE e[k]]

(***************************************************************************)
(* Lattice geometry.                                                       *)
(***************************************************************************)
CellIndex(sz, x, y) == y * sz + x
XOf(sz, i) == i % sz
YOf(sz, i) == i \div sz
Indices(sz) == 0 .. (sz * sz - 1)

\* Mutant of XYOk: the test x < size is missing.
XYOk_NoUpperXCheck(sz, x, y) == x >= 0 /\ y >= 0 /\ y < sz

XYOk(sz, x, y) == x >= 0 /\ x < sz /\ y >= 0 /\ y < sz

\* get_neighbors: the six candidates in the order of the source, the
\* out-of-grid ones filtered out, each mapped to its index.
NeighborCandidates(x, y) ==
    << <<x, y + 1>>, <<x, y - 1>>, <<x - 1, y>>, <<x + 1, y>>, <<x - 1, y - 1>>,
       <<x + 1, y + 1>> >>

GetNeighbors(sz, i) ==
    LET cand == NeighborCandidates(XOf(sz, i), YOf(sz, i))
        ok == SelectSeq(cand, LAMBDA p : XYOk(sz, p[1], p[2]))
    IN  [k \in 1 .. Len(ok) |-> CellIndex(sz, ok[k][1], ok[k][2])]

Range(s) == {s[k] : k \in 1 .. Len(s)}

\* Mutant of CenterIndex: the centre taken as (size - 1) // 2.
CenterIndex_RoundedDown(sz) == CellIndex(sz, (sz - 1) \div 2, (sz - 1) \div 2)


CenterIndex(sz) == CellIndex(sz, sz \div 2, sz \div 2)

(***************************************************************************)
(* SnowflakeCell.                                                          *)
(***************************************************************************)
\* An attribute not yet assigned (_next_dm before the first step_one): no float.
Unset == [s |-> 2, e |-> 0, m |-> <<0, 0, 0, 0>>]

\* SnowflakeCell.__init__
NewCell(e) ==
    [dm |-> e.gamma, bm |-> Zero, cm |-> Zero, attached |-> FALSE, boundary |-> FALSE,
     an |-> << >>, age |-> 0, next_dm |-> Unset, flag |-> FALSE]

\* Mutant of Attach: boundary_mass is not cleared.
Attach_KeepsBoundaryMass(c, offset) ==
    [c EXCEPT !.cm = FAdd(FAdd(c.bm, c.cm), offset), !.attached = TRUE]

\* Mutant of Attach: the boundary flag is cleared on attachment.
Attach_ClearsBoundary(c, offset) ==
    [c EXCEPT !.cm = FAdd(FAdd(c.bm, c.cm), offset), !.bm = Zero, !.attached = TRUE,
              !.boundary = FALSE]

\* attach(offset)
Attach(c, offset) ==
    [c EXCEPT !.cm = FAdd(FAdd(c.bm, c.cm), offset), !.bm = Zero, !.attached = TRUE]

\* Mutant of UpdateBoundary: all() in place of any().
UpdateBoundary_AllNeighbors(cs, sz, i) ==
    ~cs[i].attached /\ \A n \in Range(GetNeighbors(sz, i)) : cs[n].attached

\* Mutant of UpdateBoundary: the neighbours are not consulted.
UpdateBoundary_IgnoresNeighbors(cs, sz, i) == ~cs[i].attached

\* update_boundary: the new value of the boundary flag of cell i.
UpdateBoundary(cs, sz, i) ==
    ~cs[i].attached /\ \E n \in Range(GetNeighbors(sz, i)) : cs[n].attached

\* diffusion_calc: the running sum over the neighbours, in list order.
RECURSIVE DiffusionSum(_, _, _, _, _)
DiffusionSum(cs, i, nb, k, acc) ==
    IF k > Len(nb) THEN acc
    ELSE DiffusionSum(cs, i, nb, k + 1,
                      IF cs[nb[k]].attached THEN FAdd(acc, cs[i].dm)
                      ELSE FAdd(acc, cs[nb[k]].dm))

\* diffusion_calc: the value returned (the age increment is in StepOneCell).
DiffusionCalc(cs, sz, i) ==
    LET nb == GetNeighbors(sz, i)
    IN  IF cs[i].attached THEN cs[i].dm
        ELSE FDivInt(DiffusionSum(cs, i, nb, 1, cs[i].dm), Len(nb) + 1)

\* Mutant of StepOneCell: the candidate is also written to diffusive_mass at once.
StepOneCell_CommitsInPlace(cs, sz, i) ==
    LET b == UpdateBoundary(cs, sz, i)
        nb == GetNeighbors(sz, i)
    IN  [cs[i] EXCEPT !.boundary = b,
                      !.an = IF b THEN SelectSeq(nb, LAMBDA n : cs[n].attached) ELSE @,
                      !.next_dm = DiffusionCalc(cs, sz, i),
                      !.dm = DiffusionCalc(cs, sz, i),
                      !.age = IF cs[i].attached THEN @ ELSE @ + 1]

\* Mutant of StepOneCell: the age is not advanced while the cell is a boundary cell.
StepOneCell_NoAgeOnBoundary(cs, sz, i) ==
    LET b == UpdateBoundary(cs, sz, i)
        nb == GetNeighbors(sz, i)
    IN  [cs[i] EXCEPT !.boundary = b,
                      !.an = IF b THEN SelectSeq(nb, LAMBDA n : cs[n].attached) ELSE @,
                      !.next_dm = DiffusionCalc(cs, sz, i),
                      !.age = IF cs[i].attached \/ b THEN @ ELSE @ + 1]

\* step_one of cell i: boundary flag, attached_neighbors snapshot, candidate.
StepOneCell(cs, sz, i) ==
    LET b == UpdateBoundary(cs, sz, i)
        nb == GetNeighbors(sz, i)
    IN  [cs[i] EXCEPT !.boundary = b,
                      !.an = IF b THEN SelectSeq(nb, LAMBDA n : cs[n].attached) ELSE @,
                      !.next_dm = DiffusionCalc(cs, sz, i),
                      !.age = IF cs[i].attached THEN @ ELSE @ + 1]

\* freezing_step
FreezingStep(c, e) ==
    IF ~c.boundary THEN c
    ELSE [c EXCEPT !.bm = FAdd(@, FMul(FSub(One, e.kappa), c.dm)),
                   !.cm = FAdd(@, FMul(e.kappa, c.dm)),
                   !.dm = Zero]

\* attachment_step, lines 247-249: own diffusive mass plus that of every neighbour,
\* each read from the neighbour's cell as it is at the time of the call.
RECURSIVE SummedDiffusion(_, _, _, _)
SummedDiffusion(cs, nb, k, acc) ==
    IF k > Len(nb) THEN acc ELSE SummedDiffusion(cs, nb, k + 1, FAdd(acc, cs[nb[k]].dm))

\* Mutant of AttachmentStep: the comparison with beta made non-strict.
AttachmentStep_NonStrictBeta(cs, sz, i, e) ==
    LET c == cs[i]
        attach_count == Len(c.an)
    IN  IF ~c.boundary THEN FALSE
        ELSE IF attach_count <= 2 THEN FGe(c.bm, e.beta)
        ELSE IF attach_count = 3 THEN
            IF FGe(c.bm, One) THEN TRUE
            ELSE FLt(SummedDiffusion(cs, GetNeighbors(sz, i), 1, c.dm), e.theta)
                 /\ FGe(c.bm, e.alpha)
        ELSE IF attach_count >= 4 THEN TRUE
        ELSE FALSE

\* attachment_step of cell i (cs[i] is the cell after its freezing_step).
AttachmentStep(cs, sz, i, e) ==
    LET c == cs[i]
        attach_count == Len(c.an)
    IN  IF ~c.boundary THEN FALSE
        ELSE IF attach_count <= 2 THEN FGt(c.bm, e.beta)
        ELSE IF attach_count = 3 THEN
            IF FGe(c.bm, One) THEN TRUE
            ELSE FLt(SummedDiffusion(cs, GetNeighbors(sz, i), 1, c.dm), e.theta)
                 /\ FGe(c.bm, e.alpha)
        ELSE IF attach_count >= 4 THEN TRUE
        ELSE FALSE

\* The reads of neighbours' diffusive_mass that attachment_step of cell i makes
\* (only the attach_count == 3 branch with boundary_mass < 1 reads them).
AttachmentReads(cs, sz, i) ==
    LET c == cs[i]
    IN  IF c.boundary /\ Len(c.an) = 3 /\ ~FGe(c.bm, One)
        THEN {[cell |-> i, nbr |-> n, seen |-> cs[n].dm] : n \in Range(GetNeighbors(sz, i))}
        ELSE {}

\* Mutant of MeltingStep: the whole melt is taken out of boundary_mass.
MeltingStep_MeltFromBoundaryMass(c, e) ==
    IF ~c.boundary THEN c
    ELSE [c EXCEPT !.dm = FAdd(@, FAdd(FMul(e.mu, c.bm), FMul(e.upsilon, c.cm))),
                   !.bm = FSub(c.bm, FAdd(FMul(e.mu, c.bm), FMul(e.upsilon, c.cm))),
                   !.cm = FMul(FSub(One, e.upsilon), c.cm)]

\* melting_step
MeltingStep(c, e) ==
    IF ~c.boundary THEN c
    ELSE [c EXCEPT !.dm = FAdd(@, FAdd(FMul(e.mu, c.bm), FMul(e.upsilon, c.cm))),
                   !.bm = FMul(FSub(One, e.mu), c.bm),
                   !.cm = FMul(FSub(One, e.upsilon), c.cm)]

\* step_two of cell i, up to and including freezing_step.
CommitAndFreeze(c, e) ==
    FreezingStep([c EXCEPT !.dm = c.next_dm, !.flag = c.attached], e)

\* step_two of cell i: commit, freeze, decide, melt.
StepTwoCell(cs, sz, i, e) ==
    LET frozen == [cs EXCEPT ![i] = CommitAndFreeze(cs[i], e)]
    IN  MeltingStep([frozen[i] EXCEPT !.flag = AttachmentStep(frozen, sz, i, e)], e)

\* noise_step; coin is the outcome of random.random() >= 0.5.
NoiseStep(c, e, coin) ==
    IF c.boundary \/ c.attached THEN c
    ELSE IF coin THEN [c EXCEPT !.dm = FMul(FSub(One, e.sigma), c.dm)]
    ELSE [c EXCEPT !.dm = FMul(FAdd(One, e.sigma), c.dm)]

\* step_three
StepThreeCell(c, e, coin) ==
    NoiseStep(IF c.boundary /\ c.flag THEN Attach(c, Zero) ELSE c, e, coin)

(***************************************************************************)
(* CrystalLattice.                                                         *)
(***************************************************************************)
\* _init_cells: a fresh cell at every site, then the centre cell attached with
\* offset 1.
InitCells(sz, e) ==
    [i \in Indices(sz) |-> IF i = CenterIndex(sz) THEN Attach(NewCell(e), One) ELSE NewCell(e)]

\* Mutant of LoopOne: attached cells are not skipped.
RECURSIVE LoopOne_VisitsAttached(_, _, _)
LoopOne_VisitsAttached(cs, sz, i) ==
    IF i >= sz * sz THEN cs
    ELSE LoopOne_VisitsAttached([cs EXCEPT ![i] = StepOneCell(cs, sz, i)], sz, i + 1)

\* step(), first loop: step_one on every cell not attached, in list order.
RECURSIVE LoopOne(_, _, _)
LoopOne(cs, sz, i) ==
    IF i >= sz * sz THEN cs
    ELSE IF cs[i].attached THEN LoopOne(cs, sz, i + 1)
    ELSE LoopOne([cs EXCEPT ![i] = StepOneCell(cs, sz, i)], sz, i + 1)

\* step(), second loop: step_two on every cell not attached, in list order; the
\* neighbour reads of each attachment_step are collected on the way.
RECURSIVE LoopTwo(_, _, _, _, _)
LoopTwo(cs, rd, sz, i, e) ==
    IF i >= sz * sz THEN [cells |-> cs, reads |-> rd]
    ELSE IF cs[i].attached THEN LoopTwo(cs, rd, sz, i + 1, e)
    ELSE LoopTwo([cs EXCEPT ![i] = StepTwoCell(cs, sz, i, e)],
                 rd \cup AttachmentReads([cs EXCEPT ![i] = CommitAndFreeze(cs[i], e)], sz, i),
                 sz, i + 1, e)

\* The cells whose noise_step draw changes the state: without sigma both
\* outcomes of the draw leave the same diffusive_mass.
NoiseCells(cs, e) ==
    IF e.sigma = Zero THEN {}
    ELSE {i \in DOMAIN cs : ~cs[i].attached /\ ~cs[i].boundary}

CoinAt(coin, i) == IF i \in DOMAIN coin THEN coin[i] ELSE TRUE

\* step(), third loop: step_three on every cell not attached, in list order.
RECURSIVE LoopThree(_, _, _, _, _)
LoopThree(cs, sz, i, e, coin) ==
    IF i >= sz * sz THEN cs
    ELSE IF cs[i].attached THEN LoopThree(cs, sz, i + 1, e, coin)
    ELSE LoopThree([cs EXCEPT ![i] = StepThreeCell(cs[i], e, CoinAt(coin, i))], sz, i + 1, e,
                   coin)

\* The least m >= 0 with m*m >= 2*d*d: the ceiling of d*sqrt(2).
RECURSIVE CeilSqrt2(_, _)
CeilSqrt2(d, m) == IF m * m >= 2 * d * d THEN m ELSE CeilSqrt2(d, m + 1)

\* polar_to_xy((135, distance)): x = int(round(half + cos(135 deg) * distance)) and
\* y = int(round(half - sin(135 deg) * distance)), both round(size/2 - distance/sqrt(2)),
\* which is the floor of (size + 1 - distance*sqrt(2)) / 2 (no tie for distance >= 1).
PolarCoord(sz, distance) == (sz + 1 - CeilSqrt2(distance, 0)) \div 2

PolarToXY(sz, distance) == <<PolarCoord(sz, distance), PolarCoord(sz, distance)>>

\* Mutant of RadiusFrom: the distance of the last covered cell is returned, not
\* that of the gap.
RECURSIVE RadiusFrom_LastCovered(_, _, _)
RadiusFrom_LastCovered(cs, sz, radius) ==
    IF 2 * radius < sz THEN
        LET xy == PolarToXY(sz, radius + 1)
            cell == cs[CellIndex(sz, xy[1], xy[2])]
        IN  IF cell.attached \/ cell.boundary THEN RadiusFrom_LastCovered(cs, sz, radius + 1)
            ELSE radius
    ELSE RoundHalfEven(Float(sz, 2))

\* snowflake_radius(angle=135): the loop from the current radius on.
RECURSIVE RadiusFrom(_, _, _)
RadiusFrom(cs, sz, radius) ==
    IF 2 * radius < sz THEN
        LET xy == PolarToXY(sz, radius + 1)
            cell == cs[CellIndex(sz, xy[1], xy[2])]
        IN  IF cell.attached \/ cell.boundary THEN RadiusFrom(cs, sz, radius + 1)
            ELSE radius + 1
    ELSE RoundHalfEven(Float(sz, 2))

SnowflakeRadius(cs, sz) == RadiusFrom(cs, sz, 0)

\* headroom(): cutoff = int(round(margin * (size / 2.0)))
Cutoff(mg, sz) == RoundHalfEven(FMul(mg, Float(sz, 2)))

\* Mutant of Headroom: the radius compared with >= against the cutoff.
Headroom_NonStrictCutoff(cs, sz, it, ms, mg) ==
    IF ms # 0 /\ it >= ms THEN FALSE
    ELSE IF SnowflakeRadius(cs, sz) >= Cutoff(mg, sz) THEN FALSE
    ELSE TRUE

\* Mutant of Headroom: the iteration bound tested two iterations late.
Headroom_LateBound(cs, sz, it, ms, mg) ==
    IF ms # 0 /\ it >= ms + 2 THEN FALSE
    ELSE IF SnowflakeRadius(cs, sz) > Cutoff(mg, sz) THEN FALSE
    ELSE TRUE

\* Mutant of Headroom: max_steps = 0 is not taken to mean "no limit".
Headroom_ZeroIsALimit(cs, sz, it, ms, mg) ==
    IF it >= ms THEN FALSE
    ELSE IF SnowflakeRadius(cs, sz) > Cutoff(mg, sz) THEN FALSE
    ELSE TRUE

\* headroom()
Headroom(cs, sz, it, ms, mg) ==
    IF ms # 0 /\ it >= ms THEN FALSE
    ELSE IF SnowflakeRadius(cs, sz) > Cutoff(mg, sz) THEN FALSE
    ELSE TRUE

\* crop_snowflake.scale: int(round(val / sqrt(3))) for val >= 0 a multiple of 1/2,
\* the largest k with (2k - 1) * sqrt(3) <= 2 * val.
Scale(v) ==
    LET v2 == RoundHalfEven(FAdd(v, v))
        ks == {k \in 0 .. (v2 \div 2 + 1) :
                  k = 0 \/ 3 * (2 * k - 1) * (2 * k - 1) <= v2 * v2}
    IN  CHOOSE k \in ks : \A j \in ks : j <= k

\* crop_snowflake(margin): arg is << >> for None and <<m>> for the margin m.
CropSnowflake(cs, sz, arg) ==
    LET m == IF arg = << >> THEN FromInt(15) ELSE FromInt(arg[1])
        half == Float(sz, 2)
        radius == FromInt(Scale(FromInt(SnowflakeRadius(cs, sz))))
        distance == FMin(FAdd(radius, m), half)
        half_s == FromInt(Scale(half))
    IN  <<FSub(half_s, distance), FSub(half, distance), FAdd(half_s, distance),
          FAdd(half, distance)>>

(***************************************************************************)
(* The state machine: a lattice is constructed, then grow() runs.          *)
(***************************************************************************)
\* CrystalLattice.__init__: margin if margin else 0.85 (Zero stands for None).
MarginArgs == {Zero, Float(1, 2), Float(3, 2)}
EffectiveMargin(arg) == IF arg = Zero THEN Float(17, 20) ELSE arg

\* The lengths of the curve source explored (0: no curve source).
CurveSteps == {0, 1, 3, MaxSteps}

\* Noise doubles the successors once per diffusing cell, so the noisy
\* environment is explored on the grids of up to 3 x 3 cells; the grids of more
\* than 4 x 4 cells are explored without curve source and without step limit.
InputOk(sz, name, ms, cv) ==
    /\ name = "noisy" => sz <= 3
    /\ sz > 4 => ms = 0 /\ cv = 0

Snapshot(cs, sz) ==
    [dm |-> [i \in DOMAIN cs |-> cs[i].dm],
     attached |-> [i \in DOMAIN cs |-> cs[i].attached],
     radius |-> SnowflakeRadius(cs, sz),
     cells |-> cs]

NoUnit == [used |-> FALSE]

Init ==
    \E sz \in 1 .. MaxSize, name \in EnvNames, ms \in 0 .. MaxSteps, mg \in MarginArgs,
       cv \in CurveSteps, u \in RandomDraws :
        /\ InputOk(sz, name, ms, cv)
        /\ size = sz
        /\ curves = [present |-> cv > 0, steps |-> cv, base |-> EnvOf(name)]
        /\ env = IF cv > 0 THEN BuildEnv(EnvOf(name), u) ELSE EnvOf(name)
        /\ iteration = 1
        /\ margin = EffectiveMargin(mg)
        /\ max_steps = ms
        /\ cells = InitCells(sz, env)
        /\ pc = "ready"
        /\ nsteps = 0
        /\ pre = Snapshot(cells, sz)
        /\ reads = {}
        /\ envcalls = {}
        /\ ut = NoUnit

\* grow() calls step(); step() runs its first loop.
StepOne ==
    /\ pc = "ready"
    /\ iteration < MaxSteps
    /\ pre' = Snapshot(cells, size)
    /\ cells' = LoopOne(cells, size, 0)
    /\ nsteps' = nsteps + 1
    /\ reads' = {}
    /\ pc' = "step_two"
    /\ UNCHANGED <<size, env, curves, iteration, margin, max_steps, envcalls, ut>>

\* step() runs its second loop.
StepTwo ==
    /\ pc = "step_two"
    /\ LET r == LoopTwo(cells, {}, size, 0, env)
       IN  /\ cells' = r.cells
           /\ reads' = r.reads
    /\ pc' = "step_three"
    /\ UNCHANGED <<size, env, curves, iteration, margin, max_steps, nsteps, pre, envcalls, ut>>

\* step() runs its third loop; every noise_step draws its own coin.
StepThree ==
    /\ pc = "step_three"
    /\ \E coin \in [NoiseCells(cells, env) -> BOOLEAN] :
           cells' = LoopThree(cells, size, 0, env, coin)
    /\ pc' = "advance"
    /\ UNCHANGED <<size, env, curves, iteration, margin, max_steps, nsteps, pre, reads,
                   envcalls, ut>>

\* Mutant of Advance: environment.step is called before the increment, with the
\* old counter value.
Advance_EnvBeforeIncrement ==
    /\ pc = "advance"
    /\ iteration' = iteration + 1
    /\ envcalls' = envcalls \cup {iteration}
    /\ IF curves.present /\ CurveIndexError(curves.steps, iteration)
       THEN /\ pc' = "raised"
            /\ env' = env
       ELSE /\ pc' = "check"
            /\ env' = EnvStep(env, curves, iteration)
    /\ UNCHANGED <<size, curves, margin, max_steps, cells, nsteps, pre, reads, ut>>

\* step() increments the iteration and calls environment.step(iteration); an
\* index the curve source cannot serve raises out of step() and grow().
Advance ==
    /\ pc = "advance"
    /\ iteration' = iteration + 1
    /\ envcalls' = envcalls \cup {iteration'}
    /\ IF curves.present /\ CurveIndexError(curves.steps, iteration')
       THEN /\ pc' = "raised"
            /\ env' = env
       ELSE /\ pc' = "check"
            /\ env' = EnvStep(env, curves, iteration')
    /\ UNCHANGED <<size, curves, margin, max_steps, cells, nsteps, pre, reads, ut>>

\* grow() consults headroom() and loops or returns.
GrowCheck ==
    /\ pc = "check"
    /\ pc' = IF Headroom(cells, size, iteration, max_steps, margin) THEN "ready" ELSE "returned"
    /\ UNCHANGED <<size, env, curves, iteration, margin, max_steps, cells, nsteps, pre, reads,
                   envcalls, ut>>

Next == StepOne \/ StepTwo \/ StepThree \/ Advance \/ GrowCheck

Spec == Init /\ [][Next]_vars

\* grow() is a sequential loop that runs to completion: as long as the caller
\* is at a position from which Next can move on, it does move on.  Every step of
\* Next changes pc, and Next is enabled exactly at the positions of Running, so
\* the fairness condition is stated on the position alone.
PcValues == {"ready", "step_two", "step_three", "advance", "check", "returned", "raised"}

Running ==
    \/ pc \in {"step_two", "step_three", "advance", "check"}
    \/ pc = "ready" /\ iteration < MaxSteps

Progress == Running /\ pc' \in PcValues /\ pc' # pc

FairSpec == Spec /\ WF_pc(Progress)

(***************************************************************************)
(* The unit harness of attachment_step: a synthetic cell at the centre of  *)
(* a 3 x 3 lattice, with n of its six neighbours attached.                 *)
(***************************************************************************)
UnitCell == CellIndex(3, 1, 1)

UnitEnvs ==
    {EnvDefaults,
     [EnvDefaults EXCEPT !.beta = Float(1, 2), !.alpha = Float(3, 2), !.theta = One]}

UnitBoundaryMasses == {Zero, Float(2, 25), Float(1, 2), One, Float(13, 10), Float(3, 2), FromInt(2)}
UnitOwnMasses == {Zero, Float(1, 80), Float(1, 40)}
UnitNeighborMasses == {Zero, Float(1, 480), Float(1, 4)}

UnitCells(e, n, bnd, b, own, nd) ==
    LET nb == GetNeighbors(3, UnitCell)
        attachedNb == SubSeq(nb, 1, n)
    IN  [i \in Indices(3) |->
            IF i = UnitCell
            THEN [NewCell(e) EXCEPT !.boundary = bnd, !.an = attachedNb, !.bm = b, !.dm = own]
            ELSE [NewCell(e) EXCEPT !.dm = nd, !.attached = i \in Range(attachedNb)]]

InitAttach ==
    \E e \in UnitEnvs, n \in 0 .. 6, bnd \in BOOLEAN, b \in UnitBoundaryMasses,
       own \in UnitOwnMasses, nd \in UnitNeighborMasses :
        /\ size = 3
        /\ env = e
        /\ curves = [present |-> FALSE, steps |-> 0, base |-> e]
        /\ iteration = 1
        /\ margin = EffectiveMargin(Zero)
        /\ max_steps = 0
        /\ cells = UnitCells(e, n, bnd, b, own, nd)
        /\ pc = "unit"
        /\ nsteps = 0
        /\ pre = Snapshot(cells, 3)
        /\ reads = {}
        /\ envcalls = {}
        /\ ut = [used |-> TRUE, n |-> n, boundary |-> bnd, b |-> b, own |-> own, nd |-> nd,
                 result |-> FALSE]

\* The harness calls attachment_step on the synthetic cell and records the result.
UnitAttachmentStep ==
    /\ pc = "unit"
    /\ ut' = [ut EXCEPT !.result = AttachmentStep(cells, size, UnitCell, env)]
    /\ pc' = "unit_done"
    /\ UNCHANGED <<size, env, curves, iteration, margin, max_steps, cells, nsteps, pre, reads,
                   envcalls>>

NextAttach == UnitAttachmentStep

SpecAttach == InitAttach /\ [][NextAttach]_vars

(***************************************************************************)
(* Claims.                                                                 *)
(***************************************************************************)
\* States between operations: after construction and after a completed step().
BetweenSteps == pc \in {"ready", "check", "returned"}

\* C1: every read that a cell's Phase 2 makes of a neighbour's diffusive_mass
\* sees the value the neighbour had before this step() began.
C1_PhaseTwoReadsPreStep == \A r \in reads : r.seen = pre.dm[r.nbr]


\* C2 (as claimed): between operations every cell has
\* boundary == (not attached and some neighbour attached).
C2_BoundaryCorrect ==
    BetweenSteps =>
        \A i \in DOMAIN cells :
            cells[i].boundary
                = (~cells[i].attached /\ \E n \in Range(GetNeighbors(size, i)) : cells[n].attached)

\* C2 (amended): after construction every boundary flag is false; after each
\* completed step() every cell that was unattached when the step began has
\* boundary == (some neighbour was attached when the step began).
C2_BoundaryAsOfStepStart ==
    BetweenSteps =>
        IF nsteps = 0 THEN \A i \in DOMAIN cells : ~cells[i].boundary
        ELSE \A i \in DOMAIN cells :
                ~pre.attached[i] =>
                    cells[i].boundary = (\E n \in Range(GetNeighbors(size, i)) : pre.attached[n])

\* C2 witness: a step has completed in which a boundary cell attached (its flag
\* stays set) next to a cell whose flag is still clear.
C2_Witness ==
    /\ pc = "check"
    /\ \E i \in DOMAIN cells :
           /\ ~pre.attached[i] /\ cells[i].attached /\ cells[i].boundary
           /\ \E n \in Range(GetNeighbors(size, i)) : ~cells[n].attached /\ ~cells[n].boundary

\* C3: an attached cell stays attached, and its boundary_mass is 0 in every
\* state from its attachment on (the seed from construction on).
C3_AttachmentMonotone ==
    /\ [](\A i \in DOMAIN cells : cells[i].attached => cells[i].bm = Zero)
    /\ [][\A i \in DOMAIN cells : cells[i].attached => cells'[i].attached]_vars

\* C3 witness: a cell other than the seed attached in an earlier step() and a
\* later step() has completed.
C3_Witness ==
    /\ pc = "check"
    /\ \E i \in DOMAIN cells :
           i # (size \div 2) * size + size \div 2 /\ pre.attached[i] /\ cells[i].attached
                /\ cells[i].bm = Zero /\ cells[i].cm # Zero

\* C4: after construction and before any step(), the cell at (size // 2, size // 2)
\* is the only attached cell, and every other cell has diffusive_mass gamma,
\* boundary_mass 0, crystal_mass 0, boundary false and age 0.
C4_SeedInvariant ==
    (pc = "ready" /\ nsteps = 0) =>
        \A i \in DOMAIN cells :
            IF i = (size \div 2) * size + size \div 2 THEN cells[i].attached
            ELSE /\ ~cells[i].attached
                 /\ cells[i].dm = env.gamma
                 /\ cells[i].bm = Zero
                 /\ cells[i].cm = Zero
                 /\ ~cells[i].boundary
                 /\ cells[i].age = 0

\* C4 witness: a freshly constructed lattice of an even size of at least 4.
C4_Witness ==
    /\ pc = "ready" /\ nsteps = 0 /\ size >= 4 /\ size % 2 = 0
    /\ cells[(size \div 2) * size + size \div 2].attached

\* C5: attachment_step returns true exactly when the cell is a boundary cell and
\* n <= 2 and b > beta, or n = 3 and (b >= 1 or (sum < theta and b >= alpha)),
\* or n >= 4; n is the attached-neighbour count, b the boundary_mass, sum the
\* cell's diffusive_mass plus that of its six neighbours, added one by one.
C5_AttachmentTable ==
    pc = "unit_done" =>
        LET sum == FAdd(FAdd(FAdd(FAdd(FAdd(FAdd(ut.own, ut.nd), ut.nd), ut.nd), ut.nd), ut.nd),
                        ut.nd)
        IN  ut.result
              = (/\ ut.boundary
                 /\ \/ ut.n <= 2 /\ FGt(ut.b, env.beta)
                    \/ ut.n = 3 /\ (FGe(ut.b, One) \/ (FLt(sum, env.theta) /\ FGe(ut.b, env.alpha)))
                    \/ ut.n >= 4)

\* C5 witness: three attached neighbours, boundary_mass below 1, and the cell
\* attaches through the summed-diffusion test.
C5_Witness ==
    /\ pc = "unit_done" /\ ut.boundary /\ ut.n = 3 /\ FLt(ut.b, One) /\ ut.result

\* C6: with max_steps = M >= 1, grow() ends (it returns, or the curve lookup
\* raises out of it) and step() is called at most M times.
C6_Termination ==
    /\ [](max_steps >= 1 => nsteps <= max_steps)
    /\ (max_steps >= 1) ~> (pc \in {"returned", "raised"})

\* C6 witness: grow() returned because the iteration counter reached max_steps,
\* after max_steps - 1 calls of step().
C6_Witness ==
    /\ pc = "returned" /\ max_steps >= 3 /\ nsteps = max_steps - 1 /\ iteration = max_steps
    /\ SnowflakeRadius(cells, size) <= Cutoff(margin, size)

\* C7 (as claimed): when grow() returns with max_steps >= 1, the radius is
\* <= margin * size/2 or the iteration counter equals max_steps.
C7_ExitPostcondition ==
    (pc = "returned" /\ max_steps >= 1) =>
        \/ FLe(FromInt(SnowflakeRadius(cells, size)), FMul(margin, Float(size, 2)))
        \/ iteration = max_steps

\* C7 (amended): when grow() returns with max_steps >= 1, the radius exceeds
\* int(round(margin * size/2)) or the iteration counter has reached max_steps
\* (and equals it when max_steps >= 2).
C7_ExitByCutoffOrMaxSteps ==
    (pc = "returned" /\ max_steps >= 1) =>
        \/ SnowflakeRadius(cells, size) > RoundHalfEven(FMul(margin, Float(size, 2)))
        \/ iteration >= max_steps /\ (max_steps >= 2 => iteration = max_steps)

\* C7 witness: grow() returned on the radius cutoff before max_steps was reached.
C7_Witness ==
    /\ pc = "returned" /\ max_steps >= 1 /\ iteration < max_steps
    /\ SnowflakeRadius(cells, size) > RoundHalfEven(FMul(margin, Float(size, 2)))

\* C8: for every margin >= 0 and the default, the four coordinates of the box of
\* crop_snowflake(margin) lie in [0, size].
CropMarginArgs == {<< >>, <<0>>, <<1>>, <<2>>}

C8_CropBoxContained ==
    BetweenSteps =>
        \A arg \in CropMarginArgs :
            \A k \in 1 .. 4 :
                LET box == CropSnowflake(cells, size, arg)
                IN  FGe(box[k], Zero) /\ FLe(box[k], FromInt(size))

\* C9: with a curve source over `steps` iterations and 1 <= max_steps <= steps,
\* no call of environment.step passes an index >= steps, and grow() does not
\* fail with an index error.
C9_CurveIndexInRange ==
    (curves.present /\ max_steps >= 1 /\ max_steps <= curves.steps) =>
        /\ \A x \in envcalls : x < curves.steps
        /\ pc # "raised"

\* C10: the radius after a completed step() is >= the radius before it.
C10_RadiusMonotone == pc = "check" => SnowflakeRadius(cells, size) >= pre.radius

\* The fields of a cell that the automaton's rules are about.
CellFields(c) == <<c.dm, c.bm, c.cm, c.attached, c.boundary, c.age, c.an>>

\* C11: a cell that is attached is left unchanged by every part of step():
\* diffusive_mass, boundary_mass, crystal_mass, attached, boundary, age and
\* attached_neighbors all keep their values.
C11_AttachedTerminal ==
    [][\A i \in DOMAIN cells :
          cells[i].attached => CellFields(cells'[i]) = CellFields(cells[i])]_vars

\* C11 witness: a step() has completed on a lattice where a cell other than the
\* seed was attached, with its boundary flag and attached_neighbors still set,
\* while an unattached cell changed its diffusive_mass in that step.
C11_Witness ==
    /\ pc = "check" /\ nsteps >= 2
    /\ \E i \in DOMAIN cells :
           /\ pre.attached[i] /\ pre.cells[i].boundary /\ pre.cells[i].an # << >>
           /\ CellFields(cells[i]) = CellFields(pre.cells[i])
    /\ \E j \in DOMAIN cells : ~pre.attached[j] /\ cells[j].dm # pre.dm[j]

\* The parameter ranges under which the masses are claimed non-negative.
InUnitInterval(a) == FGe(a, Zero) /\ FLe(a, One)

ParametersInRange(e) ==
    /\ FGe(e.gamma, Zero)
    /\ InUnitInterval(e.kappa) /\ InUnitInterval(e.mu)
    /\ InUnitInterval(e.upsilon) /\ InUnitInterval(e.sigma)

\* C12: with gamma >= 0 and kappa, mu, upsilon, sigma in [0, 1], every cell's
\* diffusive_mass, boundary_mass and crystal_mass are >= 0 in every state.
C12_MassNonNegative ==
    ParametersInRange(env) =>
        \A i \in DOMAIN cells :
            FGe(cells[i].dm, Zero) /\ FGe(cells[i].bm, Zero) /\ FGe(cells[i].cm, Zero)

\* C12 witness: Phase 2 has frozen and melted an unattached boundary cell with
\* mu, upsilon > 0, leaving it diffusive, boundary and crystal mass.
C12_Witness ==
    /\ pc = "step_three" /\ ParametersInRange(env)
    /\ FGt(env.mu, Zero) /\ FGt(env.upsilon, Zero)
    /\ \E i \in DOMAIN cells :
           /\ ~cells[i].attached /\ cells[i].boundary
           /\ FGt(cells[i].dm, Zero) /\ FGt(cells[i].bm, Zero) /\ FGt(cells[i].cm, Zero)

\* The total mass of a lattice: the sum over all cells of diffusive_mass +
\* boundary_mass + crystal_mass, accumulated cell by cell from index i on (the
\* running sum acc is a float, its sign 0 or 1).
RECURSIVE TotalMassFrom(_, _, _, _)
TotalMassFrom(cs, sz, i, acc) ==
    IF i >= sz * sz \/ acc.s > 1 THEN acc
    ELSE TotalMassFrom(cs, sz, i + 1, FAdd(acc, FAdd(FAdd(cs[i].dm, cs[i].bm), cs[i].cm)))

TotalMass(cs, sz) == TotalMassFrom(cs, sz, 0, Zero)

\* The rounding of the float sums allowed for when two totals are compared: 2^-16.
MassTolerance == FDivInt(One, 65536)

\* C13: with sigma = 0, the total mass of the lattice after a completed step()
\* equals the total mass before it (up to the rounding of the sums).
C13_MassConserved ==
    (pc = "check" /\ env.sigma = Zero) =>
        LET d == FSub(TotalMass(cells, size), TotalMass(pre.cells, size))
        IN  FLe(d, MassTolerance) /\ FGe(d, FNeg(MassTolerance))

\* C14: a call of CrystalEnvironment.step(x) that returns changes no parameter
\* when there is no curve source; with a curve source it sets every
\* curve-driven parameter to the curve's value at x and leaves gamma alone;
\* gamma never changes during a run.
C14_EnvStepFrame ==
    /\ [][(pc = "advance" /\ pc' = "check") =>
             IF ~curves.present THEN env' = env
             ELSE /\ env'.gamma = env.gamma
                  /\ \A k \in CurveKeys : env'[k] = CurveValue(curves.base, k, iteration')]_vars
    /\ [][env'.gamma = env.gamma]_vars

\* C14 witness: environment.step has just rewritten beta from the curve to a
\* value other than the one the environment was built with.
C14_Witness ==
    /\ pc = "check" /\ curves.present
    /\ env.beta # curves.base.beta
    /\ FGe(env.gamma, MinGamma) /\ FLt(env.gamma, MaxGamma)

\* C15: inside step(), Phase 1 has finished on every non-attached cell (age
\* advanced, candidate set) before Phase 2 starts on any (no mass committed or
\* frozen), Phase 2 has finished on every non-attached cell (candidate committed,
\* then moved between the cell's three masses) before Phase 3 starts on any (no
\* cell attached), and only after Phase 3 the iteration counter is incremented by
\* exactly 1 and environment.step is called once with the new value.
C15_StepOrdering ==
    /\ [](pc = "step_two" =>
            \A i \in DOMAIN cells :
                ~pre.attached[i] =>
                    /\ cells[i].age = pre.cells[i].age + 1
                    /\ cells[i].next_dm # Unset
                    /\ cells[i].dm = pre.cells[i].dm
                    /\ cells[i].bm = pre.cells[i].bm)
    /\ [](pc = "step_three" =>
            \A i \in DOMAIN cells :
                ~pre.attached[i] =>
                    /\ ~cells[i].attached
                    /\ ~cells[i].boundary => cells[i].dm = cells[i].next_dm
                    /\ LET c == MeltingStep(
                                    FreezingStep([pre.cells[i] EXCEPT
                                                     !.dm = cells[i].next_dm,
                                                     !.boundary = cells[i].boundary], env),
                                    env)
                       IN  cells[i].dm = c.dm /\ cells[i].bm = c.bm /\ cells[i].cm = c.cm)
    /\ [](pc \in {"step_two", "step_three", "advance"} =>
            iteration = nsteps /\ envcalls = 2 .. iteration)
    /\ [](pc \in {"check", "raised"} => iteration = nsteps + 1 /\ envcalls = 2 .. iteration)
    /\ [][iteration' # iteration =>
             pc = "advance" /\ iteration' = iteration + 1
                /\ envcalls' = envcalls \cup {iteration'}]_vars
    /\ [][envcalls' # envcalls => pc = "advance"]_vars

\* C15 witness: the second step() has completed, a cell attached in its Phase 3,
\* and environment.step has been called with 2 and with 3.
C15_Witness ==
    /\ pc = "check" /\ iteration = 3 /\ envcalls = {2, 3}
    /\ \E i \in DOMAIN cells : ~pre.attached[i] /\ cells[i].attached

\* C16: after Phase 1 no cell's diffusive_mass or attached flag has changed, and
\* every non-attached cell is what step_one makes of it on the pre-step lattice
\* (boundary, attached_neighbors and candidate are functions of the pre-step
\* state, whatever the order of the visits); after Phase 2 no attached flag has
\* changed.
C16_DoubleBuffering ==
    /\ [](pc = "step_two" =>
            \A i \in DOMAIN cells :
                /\ cells[i].dm = pre.cells[i].dm
                /\ cells[i].attached = pre.cells[i].attached
                /\ ~pre.attached[i] => cells[i] = StepOneCell(pre.cells, size, i))
    /\ [](pc = "step_three" =>
            \A i \in DOMAIN cells : cells[i].attached = pre.cells[i].attached)

\* C16 witness: Phase 1 has left a candidate that differs from the diffusive_mass
\* in a cell and in a neighbour of it that was visited before it.
C16_Witness ==
    /\ pc = "step_two"
    /\ \E i \in DOMAIN cells :
           /\ ~cells[i].attached /\ cells[i].next_dm # cells[i].dm
           /\ \E n \in Range(GetNeighbors(size, i)) :
                  n < i /\ ~cells[n].attached /\ cells[n].next_dm # cells[n].dm

\* The cell the ray of snowflake_radius visits at distance d, and the distances
\* 1 .. ceil(size / 2) at which that cell is neither attached nor boundary.
RayCell(d) == cells[CellIndex(size, PolarCoord(size, d), PolarCoord(size, d))]

RayGaps == {d \in 1 .. ((size + 1) \div 2) : ~RayCell(d).attached /\ ~RayCell(d).boundary}

FirstGap == CHOOSE d \in RayGaps : \A g \in RayGaps : d <= g

\* C17 (as claimed): snowflake_radius() is the distance of the last attached or
\* boundary cell before the first gap on the ray, and the grid half-width when
\* there is no gap.
C17_RadiusIsLastCovered ==
    BetweenSteps =>
        IF RayGaps # {} THEN SnowflakeRadius(cells, size) = FirstGap - 1
        ELSE 2 * SnowflakeRadius(cells, size) = size

\* C17 (amended): snowflake_radius() is the distance of the first cell on the ray
\* that is neither attached nor boundary, and int(round(size / 2.0)), with halves
\* rounded to the even neighbour, when the cells at all distances
\* 1 .. ceil(size / 2) are attached or boundary.
C17_RadiusIsFirstGap ==
    BetweenSteps =>
        IF RayGaps # {} THEN SnowflakeRadius(cells, size) = FirstGap
        ELSE SnowflakeRadius(cells, size)
               = (IF size % 2 = 0 THEN size \div 2
                  ELSE IF size % 4 = 1 THEN (size - 1) \div 2 ELSE (size + 1) \div 2)

\* C17 witness: after a completed step() the first gap on the ray is at a distance
\* of 3 or more.
C17_Witness ==
    /\ pc = "check" /\ RayGaps # {} /\ FirstGap >= 3
    /\ SnowflakeRadius(cells, size) = FirstGap

\* The two conditions of headroom(): the configured limit reached, and the radius
\* beyond margin * (size / 2) exactly or beyond its rounded value.
LimitReached == max_steps # 0 /\ iteration >= max_steps

RadiusExceedsMargin ==
    FGt(FromInt(SnowflakeRadius(cells, size)), FMul(margin, Float(size, 2)))

RadiusExceedsRoundedMargin ==
    LET r == SnowflakeRadius(cells, size)
        over == FSub(FromInt(r), FMul(margin, Float(size, 2)))
    IN  FGt(over, Float(1, 2)) \/ (over = Float(1, 2) /\ r % 2 = 1)

\* C18 (as claimed): headroom() returns false exactly when max_steps is non-zero
\* and reached, or snowflake_radius() > margin * (size / 2).  (grow() is back at
\* the top of its loop when headroom() was true, and has returned when it was
\* false.)
C18_HeadroomExact ==
    /\ (pc = "ready" /\ nsteps >= 1) => ~(LimitReached \/ RadiusExceedsMargin)
    /\ pc = "returned" => (LimitReached \/ RadiusExceedsMargin)

\* C18 (amended): headroom() returns false exactly when max_steps is non-zero and
\* reached, or snowflake_radius() > int(round(margin * (size / 2))): the radius
\* exceeds margin * (size / 2) by more than 1/2, or by exactly 1/2 and is odd.
C18_HeadroomRoundedCutoff ==
    /\ (pc = "ready" /\ nsteps >= 1) => ~(LimitReached \/ RadiusExceedsRoundedMargin)
    /\ pc = "returned" => (LimitReached \/ RadiusExceedsRoundedMargin)

\* C18 witness: headroom() returned true although the radius exceeds
\* margin * (size / 2), by less than the rounding of the cutoff.
C18_Witness ==
    /\ pc = "ready" /\ nsteps >= 1
    /\ RadiusExceedsMargin /\ ~RadiusExceedsRoundedMargin

\* The neighbours of cell i by the adjacency rule: the cells of the grid at one
\* of the six offsets from it.
NeighborOffsets == {<<0, 1>>, <<0, -1>>, <<-1, 0>>, <<1, 0>>, <<-1, -1>>, <<1, 1>>}

InGridNeighbors(sz, i) ==
    {j \in Indices(sz) : <<XOf(sz, j) - XOf(sz, i), YOf(sz, j) - YOf(sz, i)>> \in NeighborOffsets}

\* C19: the neighbours of every cell (x, y) are exactly the in-grid cells among
\* (x,y+1), (x,y-1), (x-1,y), (x+1,y), (x-1,y-1), (x+1,y+1), each once, never the
\* cell itself, and the attached_neighbors kept by a cell are among them
\* throughout the run.
C19_NeighborResolution ==
    \A i \in DOMAIN cells :
        LET nb == GetNeighbors(size, i)
        IN  /\ Range(nb) = InGridNeighbors(size, i)
            /\ Len(nb) = Cardinality(Range(nb))
            /\ i \notin Range(nb)
            /\ Range(cells[i].an) \subseteq InGridNeighbors(size, i)

\* C19 witness: after a completed step() a cell in the first column, with fewer
\* than six neighbours, holds a snapshot of attached neighbours.
C19_Witness ==
    /\ pc = "check" /\ size >= 3
    /\ \E i \in DOMAIN cells :
           /\ XOf(size, i) = 0 /\ Len(GetNeighbors(size, i)) < 6
           /\ cells[i].an # << >>

\* C20: after n completed step() calls every unattached cell has age n; a cell
\* that attaches during the k-th step() has age k then and keeps it; the seed
\* has age 0 forever.
C20_AgeCounter ==
    /\ [](BetweenSteps => \A i \in DOMAIN cells : ~cells[i].attached => cells[i].age = nsteps)
    /\ [][\A i \in DOMAIN cells :
             (~cells[i].attached /\ cells'[i].attached) => cells'[i].age = nsteps]_vars
    /\ [][\A i \in DOMAIN cells : cells[i].attached => cells'[i].age = cells[i].age]_vars
    /\ [](cells[(size \div 2) * size + size \div 2].age = 0)

\* C20 witness: three step() calls have completed; one cell attached in the first
\* and has age 1, another is still unattached and has age 3.
C20_Witness ==
    /\ pc = "check" /\ nsteps = 3
    /\ \E i \in DOMAIN cells : cells[i].attached /\ cells[i].age = 1
    /\ \E j \in DOMAIN cells : ~cells[j].attached /\ cells[j].age = 3

\* The attached cells, the cells within k neighbour-hops of the cells S, and the
\* attached cells that can be reached from S through attached cells only.
AttachedSet(cs) == {i \in DOMAIN cs : cs[i].attached}

RECURSIVE HopBall(_, _, _)
HopBall(sz, S, k) ==
    IF k = 0 THEN S
    ELSE HopBall(sz, S \cup UNION {Range(GetNeighbors(sz, i)) : i \in S}, k - 1)

RECURSIVE AttachedReach(_, _, _)
AttachedReach(cs, sz, S) ==
    LET T == S \cup {j \in AttachedSet(cs) : \E i \in S : j \in Range(GetNeighbors(sz, i))}
    IN  IF T = S THEN S ELSE AttachedReach(cs, sz, T)

\* C21: a cell attached during a step() has a neighbour that was attached when
\* the step began; every attached cell is within nsteps neighbour-hops of the
\* centre cell; the attached cells are connected and include the centre.
C21_GrowthByLayers ==
    /\ [](\A i \in DOMAIN cells :
            (cells[i].attached /\ ~pre.attached[i]) =>
                \E n \in Range(GetNeighbors(size, i)) : pre.attached[n])
    /\ [](AttachedSet(cells) \subseteq HopBall(size, {(size \div 2) * size + size \div 2}, nsteps))
    /\ [](AttachedReach(cells, size, {(size \div 2) * size + size \div 2}) = AttachedSet(cells))

\* C21 witness: after the second step() a cell two hops from the centre is
\* attached, next to a cell that attached in the first step.
C21_Witness ==
    /\ pc = "check" /\ nsteps = 2
    /\ \E i \in DOMAIN cells :
           /\ cells[i].attached /\ ~pre.attached[i]
           /\ i \notin HopBall(size, {(size \div 2) * size + size \div 2}, 1)
           /\ \E n \in Range(GetNeighbors(size, i)) : pre.attached[n]

\* C22: a boundary flag that is set stays set: the cell stays a boundary cell
\* until it attaches and keeps the flag after attaching.
C22_BoundaryNeverReverts ==
    [][\A i \in DOMAIN cells : cells[i].boundary => cells'[i].boundary]_vars

\* C22 witness: over a completed step() one boundary cell stayed an unattached
\* boundary cell and another attached with its flag still set.
C22_Witness ==
    /\ pc = "check"
    /\ \E i \in DOMAIN cells :
           pre.cells[i].boundary /\ ~pre.attached[i] /\ ~cells[i].attached /\ cells[i].boundary
    /\ \E j \in DOMAIN cells :
           pre.cells[j].boundary /\ ~pre.attached[j] /\ cells[j].attached /\ cells[j].boundary

\* C23: grow() consults headroom() only after a step(); when grow() has ended on
\* a lattice with max_steps = M >= 1 and the radius cutoff has not fired, it has
\* returned, after exactly M - 1 steps with iteration = M when M >= 2, and after
\* exactly one step with iteration = 2 when M = 1.
C23_StepCount ==
    /\ pc \in {"check", "returned"} => nsteps >= 1
    /\ (/\ pc \in {"returned", "raised"}
        /\ max_steps >= 1
        /\ SnowflakeRadius(cells, size) <= Cutoff(margin, size)) =>
            /\ pc = "returned"
            /\ nsteps = (IF max_steps >= 2 THEN max_steps - 1 ELSE 1)
            /\ iteration = (IF max_steps >= 2 THEN max_steps ELSE 2)

====
